---- MODULE Spec2Model ----
(***************************************************************************)
(* Weighted finite-state automata over the real semiring: the path sampler *)
(* (rrnn/sampler.py) and the reachability-based pruner                     *)
(* (rrnn/transformer.py).                                                  *)
(*                                                                         *)
(* Weights are non-negative integers: a real weight is its numerator over  *)
(* a fixed common denominator, which cancels in every normalisation the    *)
(* sampler performs.  A probability is a pair (numerator, denominator).    *)
(***************************************************************************)
EXTENDS Integers, Sequences, FiniteSets, TLC

\* ------------------------------------------------------------------ bounds
NumStates == 3      \* state identifiers of an automaton handed to trim
NumQ == 2           \* state identifiers of a sampler's working automaton
MaxArcs == 2        \* arcs of an automaton
MaxW == 2           \* largest weight numerator
MaxMass == 4        \* total weight of a sampler's working automaton
MaxInvT == 2        \* largest exponent 1/T of the temperature scaling
MaxLen == 2         \* symbols of one sample the model records
MaxSamples == 2     \* samples one sampler draws, over all its sample() calls
MaxLead == 1        \* draws one sampler may be ahead of another on one seed
DetMass == 3        \* total weight of the automaton two samplers share
FairMass == 3       \* total weight of an automaton sampled under fair draws

\* ------------------------------------------------------------ data model
\* State(idx) is the integer idx >= 1 and a symbol of the alphabet the integer
\* of its position; the integer 0 is the Python int 0 the sampler uses as its
\* stop mark, which no State and no Sym object equals.
States == 1..NumStates
SigmaSeq == <<1, 2>>
Sigma == {SigmaSeq[n] : n \in DOMAIN SigmaSeq}
eps == 3
EOS == 4

\* The label of an arc: <<a>> for an acceptor, <<a, b>> for a transducer.
Labels(kind) ==
    IF kind = "FST" THEN {<<a, b>> : a \in Sigma, b \in Sigma} \ {<<a, a>> : a \in Sigma}
                    ELSE {<<a>> : a \in Sigma}

ZeroWeights == [q \in States |-> 0]

\* F.spawn(): a fresh, empty automaton of the same kind.
spawn(F) ==
    [kind |-> F.kind, Q |-> {}, arcs |-> {}, lam |-> ZeroWeights, rho |-> ZeroWeights]

\* F.arcs(i): the arcs leaving i, as (label, destination, weight).
arcs(F, i) == {<<e[2], e[3], e[4]>> : e \in {d \in F.arcs : d[1] = i}}

\* F.I and F.F: the states with a non-zero initial (final) weight, with it.
I(F) == {<<q, F.lam[q]>> : q \in {p \in States : F.lam[p] # 0}}
Fin(F) == {<<q, F.rho[q]>> : q \in {p \in States : F.rho[p] # 0}}

\* T.add_arc(i, label, j, w), T.set_I(q, w), T.set_F(q, w).
add_arc(T, i, lab, j, w) ==
    [T EXCEPT !.Q = @ \cup {i, j}, !.arcs = @ \cup {<<i, lab, j, w>>}]
set_I(T, q, w) == [T EXCEPT !.Q = @ \cup {q}, !.lam[q] = w]
set_F(T, q, w) == [T EXCEPT !.Q = @ \cup {q}, !.rho[q] = w]

\* Forward closure of a state set S under the arcs of F.
RECURSIVE Forward(_, _)
Forward(F, S) ==
    LET N == S \cup {e[3] : e \in {d \in F.arcs : d[1] \in S}}
    IN  IF N = S THEN S ELSE Forward(F, N)

\* Backward closure of a state set S under the arcs of F.
RECURSIVE Backward(_, _)
Backward(F, S) ==
    LET N == S \cup {e[1] : e \in {d \in F.arcs : d[3] \in S}}
    IN  IF N = S THEN S ELSE Backward(F, N)

\* F.accessible(): the states reachable from some initial state.
accessible(F) == Forward(F, {p[1] : p \in I(F)})

\* F.coaccessible(): the states from which some final state is reachable.
coaccessible(F) == Backward(F, {p[1] : p \in Fin(F)})

\* ------------------------------------------------------------ Transformer
\* Fold of a set of updates into an automaton, one element at a time, in an
\* arbitrary order (a Python for loop over a set or a generator).
RECURSIVE FoldArcs(_, _)
FoldArcs(T, todo) ==
    IF todo = {} THEN T
    ELSE LET e == CHOOSE x \in todo : TRUE
         IN  FoldArcs(add_arc(T, e[1], e[2], e[3], e[4]), todo \ {e})

RECURSIVE FoldI(_, _)
FoldI(T, todo) ==
    IF todo = {} THEN T
    ELSE LET p == CHOOSE x \in todo : TRUE
         IN  FoldI(set_I(T, p[1], p[2]), todo \ {p})

RECURSIVE FoldF(_, _)
FoldF(T, todo) ==
    IF todo = {} THEN T
    ELSE LET p == CHOOSE x \in todo : TRUE
         IN  FoldF(set_F(T, p[1], p[2]), todo \ {p})

\* _add_trim_arcs without its test of the destination (j in AC).
TrimArcCallsAnyDestination(F, AC) ==
    UNION {{IF F.kind = "FST" THEN <<i, <<t[1][1], t[1][2]>>, t[2], t[3]>>
                              ELSE <<i, <<t[1][1]>>, t[2], t[3]>>
            : t \in arcs(F, i)} : i \in AC}

\* The add_arc calls _add_trim_arcs makes: for i in AC, for each arc of i whose
\* destination is in AC, the arc with its label (both components for a
\* transducer, the FST branch) and weight.
TrimArcCalls(F, AC) ==
    UNION {{IF F.kind = "FST" THEN <<i, <<t[1][1], t[1][2]>>, t[2], t[3]>>
                              ELSE <<i, <<t[1][1]>>, t[2], t[3]>>
            : t \in {u \in arcs(F, i) : u[2] \in AC}} : i \in AC}

\* Transformer._add_trim_arcs(F, T, AC).
_add_trim_arcs(F, T, AC) == FoldArcs(T, TrimArcCalls(F, AC))

\* trim with AC = A, the intersection with the co-accessible states left out.
trimAccessibleOnly(F) ==
    LET AC == accessible(F)
        T0 == spawn(F)
        T1 == _add_trim_arcs(F, T0, AC)
        T2 == FoldI(T1, {p \in I(F) : p[1] \in AC})
        T3 == FoldF(T2, {p \in Fin(F) : p[1] \in AC})
    IN  T3

\* Transformer.trim(F).
trim(F) ==
    LET AC == accessible(F) \cap coaccessible(F)
        T0 == spawn(F)
        T1 == _add_trim_arcs(F, T0, AC)
        T2 == FoldI(T1, {p \in I(F) : p[1] \in AC})
        T3 == FoldF(T2, {p \in Fin(F) : p[1] \in AC})
    IN  T3

\* ------------------------------------------------------------ input sets
ArcSlots(kind, Qs) == {<<i, lab, j>> : i \in Qs, lab \in Labels(kind), j \in Qs}

\* The sets of at most n arcs over the states Qs, no two on one
\* (source, label, destination), with weights in Ws.
RECURSIVE ArcSets(_, _, _, _)
ArcSets(kind, Qs, Ws, n) ==
    IF n = 0 THEN {{}}
    ELSE LET P == ArcSets(kind, Qs, Ws, n - 1)
         IN  P \cup UNION {{S \cup {<<sl[1], sl[2], sl[3], w>>} :
                               sl \in ArcSlots(kind, Qs) \ {<<e[1], e[2], e[3]>> : e \in S},
                               w \in Ws} : S \in P}

RECURSIVE SumOver(_, _)
SumOver(f, S) ==
    IF S = {} THEN 0
    ELSE LET x == CHOOSE z \in S : TRUE IN f[x] + SumOver(f, S \ {x})

\* Initial or final weights: zero outside Qs, of total mass at most MaxW.
Masses(Qs) ==
    {m \in [States -> 0..MaxW] :
        /\ \A p \in States \ Qs : m[p] = 0
        /\ SumOver(m, Qs) <= MaxW}

Automata(kind, Qs, Ws) ==
    [kind : {kind}, Q : {Qs}, arcs : ArcSets(kind, Qs, Ws, MaxArcs),
     lam : Masses(Qs), rho : Masses(Qs)]

TrimInputs == Automata("FSA", States, 1..MaxW) \cup Automata("FST", States, 1..MaxW)

SamplerStates == 1..NumQ
RECURSIVE ArcMass(_)
ArcMass(S) ==
    IF S = {} THEN 0 ELSE LET e == CHOOSE x \in S : TRUE IN e[4] + ArcMass(S \ {e})
Mass(F) == ArcMass(F.arcs) + SumOver(F.lam, States) + SumOver(F.rho, States)
SamplerInputs == {F \in Automata("FSA", SamplerStates, 0..MaxW) : Mass(F) <= MaxMass}
Transforms == {"id", "min_len", "ban_first", "uniform"}
Seeds == {1, 2}

\* ------------------------------------------------------------------ state
VARIABLES
    auts,       \* trim: <<F>>, then <<F, trim(F)>>, then <<F, trim(F), trim(trim(F))>>
    A,          \* self.A, the sampler's working automaton
    invT,       \* 1 / self.T
    rng,        \* rng[s]: sampler s's generator, its seed and its position
    gen,        \* gen[seed]: the outputs of the stream of a seed drawn so far
    script,     \* the sample() calls made so far, in order
    calls,      \* calls[s]: the number of sample() calls sampler s has made
    quota,      \* quota[s]: the samples sampler s may still be asked for
    pc,         \* pc[s]: where sampler s is
    args,       \* args[s]: the arguments of the call of s that is running
    todo,       \* todo[s]: samples left to draw in the running call
    res,        \* res[s]: the samples the running call has drawn
    out,        \* out[s]: the lists the calls of s returned, in order
    err,        \* err[s]: the exception a call of s raised
    q,          \* q[s]: the local q of _ancestral / _ancestral_lm
    a,          \* a[s]: the local a of _ancestral_lm
    y,          \* y[s]: the local y
    pq_a,       \* pq_a[s]: the local pq_a of _ancestral_lm
    trunc,      \* a symbol was drawn beyond the MaxLen the model records
    grid        \* the generator's outputs are the fractions x / grid, x < grid

vars == <<auts, A, invT, rng, gen, script, calls, quota, pc, args, todo, res, out, err,
          q, a, y, pq_a, trunc, grid>>
samplerVars == <<A, invT, rng, gen, script, calls, quota, pc, args, todo, res, out, err,
                 q, a, y, pq_a, trunc, grid>>

Samplers == DOMAIN pc

\* ---------------------------------------------------------------- helpers
RECURSIVE Pow(_, _)
Pow(b, n) == IF n = 0 THEN 1 ELSE b * Pow(b, n - 1)

SumSeq(seq) ==
    LET partial[n \in 0..Len(seq)] == IF n = 0 THEN 0 ELSE partial[n - 1] + seq[n]
    IN  partial[Len(seq)]

Min(S) == CHOOSE m \in S : \A n \in S : m <= n
Max(S) == CHOOSE m \in S : \A n \in S : m >= n

\* A Python dict: its (key, value) items in insertion order.
Keys(d) == {d[n][1] : n \in DOMAIN d}
Get(d, k) == d[CHOOSE n \in DOMAIN d : d[n][1] = k][2]
Put(d, k, v) ==
    IF k \in Keys(d) THEN [n \in DOMAIN d |-> IF d[n][1] = k THEN <<k, v>> ELSE d[n]]
                     ELSE Append(d, <<k, v>>)
Dict(items) ==
    LET first == SelectSeq([n \in DOMAIN items |-> n],
                     LAMBDA n : \A m \in 1..(n - 1) : items[m][1] # items[n][1])
        last(k) == Max({m \in DOMAIN items : items[m][1] = k})
    IN  [n \in DOMAIN first |-> <<items[first[n]][1], items[last(items[first[n]][1])][2]>>]
Values(d) == [n \in DOMAIN d |-> d[n][2]]

\* The order in which F.Q, F.I and F.arcs(i) enumerate: by state, and by
\* (symbol, destination).  A value used several times is bound once, as the
\* only element of a set.
QSeq(F) == SelectSeq([n \in 1..NumStates |-> n], LAMBDA p : p \in F.Q)
ISeq(F) ==
    LET qs == SelectSeq([n \in 1..NumStates |-> n], LAMBDA p : F.lam[p] # 0)
    IN  [n \in DOMAIN qs |-> <<qs[n], F.lam[qs[n]]>>]
PairSeq ==
    [n \in 1..(Len(SigmaSeq) * NumStates) |->
        <<SigmaSeq[((n - 1) \div NumStates) + 1], ((n - 1) % NumStates) + 1>>]
ArcWeight(F, i, b, j) == (CHOOSE e \in F.arcs : e[1] = i /\ e[2] = <<b>> /\ e[3] = j)[4]
arcsSeq(F, i) ==
    CHOOSE r \in {[n \in DOMAIN ps |->
                     <<ps[n][1], ps[n][2], ArcWeight(F, i, ps[n][1], ps[n][2])>>] :
                  ps \in {SelectSeq(PairSeq,
                             LAMBDA p : \E e \in F.arcs :
                                 e[1] = i /\ e[2] = <<p[1]>> /\ e[3] = p[2])}} : TRUE

\* ---------------------------------------------------------------- Sampler
\* Sampler._w(w) = float(w) ** (1 / self.T).
_w(w) == Pow(w, invT)

\* A mapping handed to _draw: items (key, numerator) and the denominator Z the
\* code divides every entry by.
Dist(items, Z) == [items |-> Dict(items), den |-> Z]

\* The division by Z raises ZeroDivisionError when Z is zero and an entry is
\* computed.
DivFails(items, Z) == Z = 0 /\ Len(items) > 0

\* rng.choice(len(choices), p=p) raises ValueError on no candidate and on
\* probabilities that do not sum to 1.
DrawFails(d) == Len(d.items) = 0 \/ SumSeq(Values(d.items)) # d.den

\* The outputs of a generator are the fractions x / grid; the grid is as fine
\* as the largest denominator the working automaton gives rise to, so that
\* every candidate of positive probability has an output that selects it.
ZAt(F, k, i) ==
    LET outgoing == arcsSeq(F, i)
    IN  SumSeq([n \in DOMAIN outgoing |-> Pow(outgoing[n][3], k)]) + Pow(F.rho[i], k)
ZInit(F, k) == LET init == ISeq(F) IN SumSeq([n \in DOMAIN init |-> Pow(init[n][2], k)])
Resolution(F, k) ==
    Max({ZInit(F, k), Len(SigmaSeq) + 1} \cup {ZAt(F, k, i) : i \in F.Q})
Unit == 0..(grid - 1)

\* _draw without p=p: rng.choice(len(choices)), every candidate alike.
_drawIgnoringWeights(d, x) == d.items[((x * Len(d.items)) \div grid) + 1][1]

\* Sampler._draw(options), on the generator output x / grid: numpy draws
\* the first index whose cumulated probability exceeds the output.
Cum(d, k) == SumSeq(SubSeq(Values(d.items), 1, k))
_draw(d, x) ==
    d.items[Min({k \in DOMAIN d.items : x * d.den < Cum(d, k) * grid})][1]

\* One draw of sampler s from its own generator: x is the next output of the
\* stream of its seed.  gen holds the outputs that a sampler of the seed has
\* drawn and another has yet to draw; positions are kept relative to the
\* slowest sampler of the seed.
RandShared(s, x) == UNCHANGED <<rng, gen>>

Rand(s, x) ==
    LET sd == rng[s].seed
        k == rng[s].lead
        full == IF k < Len(gen[sd]) THEN gen[sd] ELSE Append(gen[sd], x)
        r1 == [rng EXCEPT ![s].lead = k + 1]
        same == {t \in Samplers : rng[t].seed = sd}
        floor == Min({r1[t].lead : t \in same})
    IN  /\ k < MaxLead
        /\ k < Len(gen[sd]) => gen[sd][k + 1] = x
        /\ rng' = [t \in Samplers |->
                      IF t \in same THEN [r1[t] EXCEPT !.lead = @ - floor] ELSE r1[t]]
        /\ gen' = [gen EXCEPT ![sd] = SubSeq(full, floor + 1, Len(full))]

\* An exception leaves the call.
Raise(s, kind) ==
    /\ pc' = [pc EXCEPT ![s] = "raised"]
    /\ err' = [err EXCEPT ![s] = kind]
    /\ UNCHANGED <<rng, gen, todo, res, out, q, a, y, pq_a, trunc>>

\* str(s) of a symbol, as its characters, and "".join([str(s) for s in y]).
SymStr(b) ==
    CASE b = 1 -> <<"a">>
      [] b = 2 -> <<"b">>
      [] b = eps -> <<"epsilon">>
      [] b = EOS -> <<"E", "O", "S">>
RECURSIVE Join(_)
Join(yy) == IF yy = <<>> THEN <<>> ELSE SymStr(Head(yy)) \o Join(Tail(yy))

\* y if not to_string else "".join([str(s) for s in y]).
Returned(s) ==
    IF args[s].to_string THEN [string |-> Join(y[s])] ELSE [symbols |-> y[s]]

\* y.append(b), recorded up to MaxLen alphabet symbols.
Fits(yy, b) == b = EOS \/ Cardinality({n \in DOMAIN yy : yy[n] \in Sigma}) < MaxLen
Emit(s, b) ==
    /\ y' = [y EXCEPT ![s] = IF Fits(@, b) THEN Append(@, b) ELSE @]
    /\ trunc' = (trunc \/ ~Fits(y[s], b))

\* return of _ancestral / _ancestral_lm into the list comprehension of sample,
\* and the return of sample after the K-th.
Return(s) ==
    LET r == Append(res[s], Returned(s))
    IN  /\ todo' = [todo EXCEPT ![s] = @ - 1]
        /\ IF todo[s] = 1
           THEN /\ out' = [out EXCEPT ![s] = Append(@, r)]
                /\ res' = [res EXCEPT ![s] = <<>>]
                /\ pc' = [pc EXCEPT ![s] = "idle"]
           ELSE /\ res' = [res EXCEPT ![s] = r]
                /\ pc' = [pc EXCEPT ![s] = IF args[s].lm THEN "ancestral_lm" ELSE "ancestral"]
                /\ UNCHANGED out
        /\ q' = [q EXCEPT ![s] = 0]
        /\ a' = [a EXCEPT ![s] = 0]
        /\ y' = [y EXCEPT ![s] = <<>>]
        /\ pq_a' = [pq_a EXCEPT ![s] = <<>>]
        /\ UNCHANGED <<rng, gen, err, trunc>>

\* Sampler.sample(K, to_string, transform, lm): the call, up to the first
\* iteration of its list comprehension.
sample(s, lm, transforms) ==
    /\ pc[s] = "idle"
    /\ \E K \in 1..MaxSamples, to_string \in BOOLEAN, transform \in transforms :
        LET c == [K |-> K, to_string |-> to_string, transform |-> transform, lm |-> lm]
        IN  /\ lm = FALSE => transform = "id"
            /\ K <= quota[s]
            /\ quota' = [quota EXCEPT ![s] = @ - K]
            /\ calls[s] < Len(script) => c = script[calls[s] + 1]
            /\ script' = IF calls[s] < Len(script) THEN script ELSE Append(script, c)
            /\ args' = [args EXCEPT ![s] = c]
            /\ todo' = [todo EXCEPT ![s] = K]
    /\ calls' = [calls EXCEPT ![s] = @ + 1]
    /\ pc' = [pc EXCEPT ![s] = IF lm THEN "ancestral_lm" ELSE "ancestral"]
    /\ UNCHANGED <<auts, A, invT, grid, rng, gen, res, out, err, q, a, y, pq_a, trunc>>

\* The initial weights, scaled: the entries {p: self._w(w) / Z for p, w in I}.
InitialItems ==
    LET init == ISeq(A) IN [n \in DOMAIN init |-> <<init[n][1], _w(init[n][2])>>]

\* _ancestral, lines 73-75: y = [], Z, and the draw of the starting state.
AncestralBegin(s) ==
    /\ pc[s] = "ancestral"
    /\ LET Z == SumSeq(Values(InitialItems))
           options == Dist(InitialItems, Z)
       IN  IF DivFails(InitialItems, Z) THEN Raise(s, "ZeroDivisionError")
           ELSE IF DrawFails(options) THEN Raise(s, "ValueError")
           ELSE \E x \in Unit :
                   /\ Rand(s, x)
                   /\ q' = [q EXCEPT ![s] = _draw(options, x)]
                   /\ y' = [y EXCEPT ![s] = <<>>]
                   /\ pc' = [pc EXCEPT ![s] = "while"]
                   /\ UNCHANGED <<todo, res, out, err, a, pq_a, trunc>>
    /\ UNCHANGED <<auts, A, invT, grid, script, calls, quota, args>>

\* The entries of options, lines 79-80: one per outgoing arc, then the stop pair.
StepItems(i) ==
    CHOOSE r \in {[n \in DOMAIN outgoing |->
                     <<<<outgoing[n][1], outgoing[n][2]>>, _w(outgoing[n][3])>>]
                  \o << <<<<0, 0>>, _w(A.rho[i])>> >> :
                  outgoing \in {arcsSeq(A, i)}} : TRUE

\* Z of line 78 without the final weight of q.
StepZWithoutStop(i) ==
    CHOOSE r \in {SumSeq([n \in DOMAIN outgoing |-> _w(outgoing[n][3])]) :
                  outgoing \in {arcsSeq(A, i)}} : TRUE

\* Z of line 78.
StepZ(i) ==
    CHOOSE r \in {SumSeq([n \in DOMAIN outgoing |-> _w(outgoing[n][3])]) + _w(A.rho[i]) :
                  outgoing \in {arcsSeq(A, i)}} : TRUE

\* _ancestral, lines 77-84: one iteration of the while loop, on the output x.
AncestralLoopOn(s, x) ==
    /\ pc[s] = "while"
    /\ q[s] # 0
    /\ \E Z \in {StepZ(q[s])}, items \in {StepItems(q[s])} :
        IF DivFails(items, Z) THEN Raise(s, "ZeroDivisionError")
        ELSE \E options \in {Dist(items, Z)} :
            IF DrawFails(options) THEN Raise(s, "ValueError")
            ELSE \E drawn \in {_draw(options, x)} :
                /\ Rand(s, x)
                /\ q' = [q EXCEPT ![s] = drawn[2]]
                /\ IF drawn[1] # 0 THEN Emit(s, drawn[1]) ELSE UNCHANGED <<y, trunc>>
                /\ UNCHANGED <<pc, todo, res, out, err, a, pq_a>>
    /\ UNCHANGED <<auts, A, invT, grid, script, calls, quota, args>>

AncestralLoop(s) == \E x \in Unit : AncestralLoopOn(s, x)

\* _ancestral with a cap on its steps: the loop also ends once it has run
\* beyond the symbols recorded.
AncestralReturnAtCap(s) ==
    /\ pc[s] = "while"
    /\ q[s] = 0 \/ trunc
    /\ Return(s)
    /\ UNCHANGED <<auts, A, invT, grid, script, calls, quota, args>>

\* _ancestral, line 86: the loop has ended.
AncestralReturn(s) ==
    /\ pc[s] = "while"
    /\ q[s] = 0
    /\ Return(s)
    /\ UNCHANGED <<auts, A, invT, grid, script, calls, quota, args>>

\* The transform argument of sample: the identity, two reweightings that
\* keep the support (no end of sequence on the empty prefix; the first symbol
\* of the alphabet banned: the rest renormalised, the distribution unchanged
\* when nothing is left), and one that does not (uniform over all entries).
Without(pa, b) ==
    LET rest == pa.den - Get(pa.items, b)
    IN  IF rest = 0 THEN pa
        ELSE [items |-> [n \in DOMAIN pa.items |->
                           IF pa.items[n][1] = b THEN <<b, 0>> ELSE pa.items[n]],
              den |-> rest]
Transform(name, yy, pa) ==
    CASE name = "id" -> pa
      [] name = "min_len" -> IF Len(yy) = 1 THEN Without(pa, EOS) ELSE pa
      [] name = "ban_first" -> Without(pa, SigmaSeq[1])
      [] name = "uniform" ->
            [items |-> [n \in DOMAIN pa.items |-> <<pa.items[n][1], 1>>],
             den |-> Len(pa.items)]
SupportPreserving == {"id", "min_len", "ban_first"}

\* _ancestral_lm, lines 108-113: the belief at the empty prefix, a and y.
LmBegin(s) ==
    /\ pc[s] = "ancestral_lm"
    /\ LET Z == SumSeq(Values(InitialItems))
       IN  IF DivFails(InitialItems, Z) THEN Raise(s, "ZeroDivisionError")
           ELSE /\ pq_a' = [pq_a EXCEPT ![s] = << <<eps, Dist(InitialItems, Z)>> >>]
                /\ a' = [a EXCEPT ![s] = eps]
                /\ y' = [y EXCEPT ![s] = <<eps>>]
                /\ pc' = [pc EXCEPT ![s] = "lm_while"]
                /\ UNCHANGED <<rng, gen, todo, res, out, err, q, trunc>>
    /\ UNCHANGED <<auts, A, invT, grid, script, calls, quota, args>>

\* _ancestral_lm, lines 115-117: the belief for the last symbol (the model
\* keeps the whole mapping until line 133 rebinds it) and the draw of q.
LmState(s) ==
    /\ pc[s] = "lm_while"
    /\ a[s] # EOS
    /\ IF a[s] \notin Keys(pq_a[s]) THEN Raise(s, "KeyError")
       ELSE LET belief == Get(pq_a[s], a[s])
            IN  IF DrawFails(belief) THEN Raise(s, "ValueError")
                ELSE \E x \in Unit :
                        /\ Rand(s, x)
                        /\ q' = [q EXCEPT ![s] = _draw(belief, x)]
                        /\ pc' = [pc EXCEPT ![s] = "lm_symbol"]
                        /\ UNCHANGED <<todo, res, out, err, a, y, pq_a, trunc>>
    /\ UNCHANGED <<auts, A, invT, grid, script, calls, quota, args>>

\* Zqa[b], lines 120-123, and the numerator of pq_a[b][j], lines 135-139.
Zqa(i, b) ==
    LET outgoing == arcsSeq(A, i)
    IN  SumSeq([n \in DOMAIN outgoing |-> IF outgoing[n][1] = b THEN _w(outgoing[n][3]) ELSE 0])
ZqajAnySymbol(i, b, j) ==
    LET outgoing == arcsSeq(A, i)
    IN  SumSeq([n \in DOMAIN outgoing |-> IF outgoing[n][2] = j THEN _w(outgoing[n][3]) ELSE 0])
Zqaj(i, b, j) ==
    LET outgoing == arcsSeq(A, i)
    IN  SumSeq([n \in DOMAIN outgoing |->
                  IF outgoing[n][1] = b /\ outgoing[n][2] = j THEN _w(outgoing[n][3]) ELSE 0])

\* The entries of pa, lines 126-130.
MarginalItems(i) ==
    [n \in DOMAIN SigmaSeq |-> <<SigmaSeq[n], Zqa(i, SigmaSeq[n])>>]
        \o << <<EOS, _w(A.rho[i])>> >>

\* pq_a of lines 133-145: for each symbol b with Zqa[b] > 0, the distribution
\* over all states of A.
Conditionals(i) ==
    LET bs == SelectSeq(SigmaSeq, LAMBDA b : Zqa(i, b) > 0)
    IN  [n \in DOMAIN bs |->
            <<bs[n], Dist([m \in DOMAIN QSeq(A) |->
                             <<QSeq(A)[m], Zqaj(i, bs[n], QSeq(A)[m])>>], Zqa(i, bs[n]))>>]

\* _ancestral_lm, lines 119-148: Zq, pa, pq_a, the transform and the draw of a.
LmSymbol(s) ==
    /\ pc[s] = "lm_symbol"
    /\ LET Zq == StepZ(q[s])
           pa == Dist(MarginalItems(q[s]), Zq)
           t == Transform(args[s].transform, y[s], pa)
       IN  IF DivFails(MarginalItems(q[s]), Zq) THEN Raise(s, "ZeroDivisionError")
           ELSE IF DrawFails(t) THEN Raise(s, "ValueError")
           ELSE \E x \in Unit :
                   /\ Rand(s, x)
                   /\ a' = [a EXCEPT ![s] = _draw(t, x)]
                   /\ Emit(s, _draw(t, x))
                   /\ pq_a' = [pq_a EXCEPT ![s] = Conditionals(q[s])]
                   /\ pc' = [pc EXCEPT ![s] = "lm_while"]
                   /\ UNCHANGED <<todo, res, out, err, q>>
    /\ UNCHANGED <<auts, A, invT, grid, script, calls, quota, args>>

\* _ancestral_lm, line 150: the loop has ended on a = EOS.
LmReturn(s) ==
    /\ pc[s] = "lm_while"
    /\ a[s] = EOS
    /\ Return(s)
    /\ UNCHANGED <<auts, A, invT, grid, script, calls, quota, args>>

\* ------------------------------------------------------------ Transformer
\* T = Transformer.trim(F), on the automaton the last call returned.
Trim ==
    /\ Len(auts) \in 1..2
    /\ auts' = Append(auts, trim(auts[Len(auts)]))
    /\ UNCHANGED samplerVars

\* --------------------------------------------------------- specifications
NoArgs == [K |-> 0, to_string |-> FALSE, transform |-> "id", lm |-> FALSE]
NoAutomaton == [kind |-> "FSA", Q |-> {}, arcs |-> {}, lam |-> ZeroWeights, rho |-> ZeroWeights]

\* n samplers just constructed on one working automaton and temperature, with
\* the given seeds, each to be asked for the given number of samples.
InitSamplers(n, seeds, inputs, samples) ==
    /\ auts = <<>>
    /\ A \in inputs
    /\ invT \in 1..MaxInvT
    /\ grid = Resolution(A, invT)
    /\ rng \in {[s \in 1..n |-> [seed |-> sd[s], lead |-> 0]] : sd \in seeds}
    /\ gen = [sd \in Seeds |-> <<>>]
    /\ script = <<>>
    /\ calls = [s \in 1..n |-> 0]
    /\ quota = [s \in 1..n |-> samples]
    /\ pc = [s \in 1..n |-> "idle"]
    /\ args = [s \in 1..n |-> NoArgs]
    /\ todo = [s \in 1..n |-> 0]
    /\ res = [s \in 1..n |-> <<>>]
    /\ out = [s \in 1..n |-> <<>>]
    /\ err = [s \in 1..n |-> "none"]
    /\ q = [s \in 1..n |-> 0]
    /\ a = [s \in 1..n |-> 0]
    /\ y = [s \in 1..n |-> <<>>]
    /\ pq_a = [s \in 1..n |-> <<>>]
    /\ trunc = FALSE

InitTrim ==
    /\ auts \in {<<F>> : F \in TrimInputs}
    /\ A = NoAutomaton
    /\ invT = 1
    /\ grid = 1
    /\ rng = <<>> /\ gen = <<>> /\ script = <<>> /\ calls = <<>> /\ quota = <<>> /\ pc = <<>>
    /\ args = <<>> /\ todo = <<>> /\ res = <<>> /\ out = <<>> /\ err = <<>>
    /\ q = <<>> /\ a = <<>> /\ y = <<>> /\ pq_a = <<>>
    /\ trunc = FALSE
NextTrim == Trim
SpecTrim == InitTrim /\ [][NextTrim]_vars

\* One sampler, sample(lm=False).
InitOne == InitSamplers(1, {<<1>>}, SamplerInputs, 1)
NextPlain ==
    \/ \E s \in Samplers : sample(s, FALSE, {"id"})
    \/ \E s \in Samplers : AncestralBegin(s)
    \/ \E s \in Samplers : AncestralLoop(s) /\ ~trunc'
    \/ \E s \in Samplers : AncestralReturn(s)
SpecPlain == InitOne /\ [][NextPlain]_vars

\* One sampler, sample(lm=True).
NextLm ==
    \/ \E s \in Samplers : sample(s, TRUE, Transforms)
    \/ \E s \in Samplers : LmBegin(s)
    \/ \E s \in Samplers : LmState(s)
    \/ \E s \in Samplers : LmSymbol(s) /\ ~trunc'
    \/ \E s \in Samplers : LmReturn(s)
SpecLm == InitOne /\ [][NextLm]_vars

\* Two samplers constructed on the same automaton and temperature, making the
\* same sequence of sample() calls, in either mode.
DetInputs == {F \in Automata("FSA", SamplerStates, 1..MaxW) : Mass(F) <= DetMass}
DetTransforms == {"id", "min_len"}
InitDet == InitSamplers(2, {<<1, 1>>}, DetInputs, MaxSamples)
NextDet ==
    \/ \E s \in Samplers : sample(s, FALSE, {"id"})
    \/ \E s \in Samplers : AncestralBegin(s)
    \/ \E s \in Samplers : AncestralLoop(s) /\ ~trunc'
    \/ \E s \in Samplers : AncestralReturn(s)
    \/ \E s \in Samplers : sample(s, TRUE, DetTransforms)
    \/ \E s \in Samplers : LmBegin(s)
    \/ \E s \in Samplers : LmState(s)
    \/ \E s \in Samplers : LmSymbol(s) /\ ~trunc'
    \/ \E s \in Samplers : LmReturn(s)
SpecDet == InitDet /\ [][NextDet]_vars

\* One sampler, sample(lm=False), run without end under fair
\* draws: the call that has ended returns, and each candidate that is offered
\* again and again is drawn.
FairInputs == {F \in SamplerInputs : Mass(F) <= FairMass}
Candidates == {<<b, j>> : b \in Sigma, j \in SamplerStates} \cup {<<0, 0>>}
Draws(s, key) ==
    /\ pc[s] = "while"
    /\ q[s] # 0
    /\ \E Z \in {StepZ(q[s])} \ {0}, items \in {StepItems(q[s])} :
        \E options \in {Dist(items, Z)} :
            /\ ~DrawFails(options)
            /\ \E x \in Unit : _draw(options, x) = key /\ AncestralLoopOn(s, x)
InitFair == InitSamplers(1, {<<1>>}, FairInputs, 1)
NextFair ==
    \/ \E s \in Samplers : sample(s, FALSE, {"id"})
    \/ \E s \in Samplers : AncestralBegin(s)
    \/ \E s \in Samplers : AncestralLoop(s)
    \/ \E s \in Samplers : AncestralReturn(s)
FairDraws == \A key \in Candidates : SF_vars(Draws(1, key))
SpecFair == InitFair /\ [][NextFair]_vars /\ WF_vars(AncestralReturn(1)) /\ FairDraws

\* --------------------------------------------------------- sampler claims
\* The values the calls of s have returned so far, finished lists and the
\* running one.
RECURSIVE Flatten(_)
Flatten(ls) == IF ls = <<>> THEN <<>> ELSE Head(ls) \o Flatten(Tail(ls))
ReturnedBy(s) == LET all == Flatten(out[s]) \o res[s] IN {all[n] : n \in DOMAIN all}

\* The states a path of positive-weight arcs labelled w leads to, from a state
\* of positive initial weight; w is accepted when one has positive final weight.
RECURSIVE ReachedOn(_, _)
ReachedOn(F, w) ==
    IF w = <<>> THEN {p \in States : F.lam[p] > 0}
    ELSE LET S == ReachedOn(F, SubSeq(w, 1, Len(w) - 1))
         IN  {e[3] : e \in {d \in F.arcs : d[1] \in S /\ d[2] = <<w[Len(w)]>> /\ d[4] > 0}}
Accepted(F, w) == \E p \in ReachedOn(F, w) : F.rho[p] > 0

RECURSIVE SeqsUpTo(_)
SeqsUpTo(n) ==
    IF n = 0 THEN {<<>>}
    ELSE LET P == SeqsUpTo(n - 1) IN P \cup {Append(w, b) : w \in P, b \in Sigma}

IsStepDistribution(i) ==
    LET options == Dist(StepItems(i), StepZ(i))
        outgoing == {e \in A.arcs : e[1] = i}
    IN  /\ Len(options.items) = Cardinality(outgoing) + 1
        /\ Keys(options.items) = {<<e[2][1], e[3]>> : e \in outgoing} \cup {<<0, 0>>}
        /\ \A e \in outgoing : Get(options.items, <<e[2][1], e[3]>>) = Pow(e[4], invT)
        /\ Get(options.items, <<0, 0>>) = Pow(A.rho[i], invT)
        /\ options.den = ArcMass({<<e[1], e[2], e[3], Pow(e[4], invT)>> : e \in outgoing})
                            + Pow(A.rho[i], invT)
        /\ SumSeq(Values(options.items)) = options.den
        /\ options.den > 0

\* C8: at every step of plain ancestral sampling the mapping handed to _draw
\* has one entry per outgoing arc of q plus the stop entry, each the scaled
\* weight over Z, and the entries sum to 1.
C8_StepOptionsAreDistribution ==
    \A s \in Samplers :
        (pc[s] = "while" /\ q[s] # 0 /\ ~DivFails(StepItems(q[s]), StepZ(q[s])))
            => IsStepDistribution(q[s])

\* The loop is in a state with two arcs on one symbol, a weight above 1 and
\* the temperature 1/2.
C8_Witness ==
    /\ pc[1] = "while" /\ q[1] # 0 /\ invT = 2
    /\ \E e, f \in A.arcs :
          e # f /\ e[1] = q[1] /\ f[1] = q[1] /\ e[2] = f[2] /\ e[4] = 2 /\ f[4] > 0

\* C5 as stated: sampling from an automaton with no initial state, or from a
\* state of zero total scaled weight, ends in DegenerateDistributionError and
\* in no other failure.
C5_DegenerateDistributionError ==
    \A s \in Samplers : pc[s] = "raised" => err[s] = "DegenerateDistributionError"

\* C4 as stated: what sample(lm=True) returns does not hold the empty-prefix
\* marker, as a symbol or in the string form.
C4_MarkerExcluded ==
    \A s \in Samplers : \A r \in ReturnedBy(s) :
        IF "symbols" \in DOMAIN r
        THEN \A n \in DOMAIN r.symbols : r.symbols[n] # eps
        ELSE \A n \in DOMAIN r.string : r.string[n] # SymStr(eps)[1]

\* C10, on the states: under a transform that keeps the support, a drawn
\* symbol other than the end of sequence has Zqa > 0 at the drawn state, the
\* next iteration finds its belief, which sums to 1, and no KeyError is raised.
C10_BeliefDefined ==
    \A s \in Samplers :
        args[s].transform \in SupportPreserving =>
            /\ err[s] # "KeyError"
            /\ (pc[s] = "lm_while" /\ a[s] \in Sigma) =>
                  /\ Zqa(q[s], a[s]) > 0
                  /\ a[s] \in Keys(pq_a[s])
                  /\ Get(pq_a[s], a[s]).den > 0
                  /\ SumSeq(Values(Get(pq_a[s], a[s]).items)) = Get(pq_a[s], a[s]).den

\* C10, on the steps: the state drawn from the belief for a is the destination
\* of a positive-weight arc labelled a leaving the state drawn before.
C10_DrawnStateFollowsArc ==
    \A s \in Samplers :
        (/\ args[s].transform \in SupportPreserving
         /\ pc[s] = "lm_while" /\ pc'[s] = "lm_symbol" /\ a[s] \in Sigma)
            => \E e \in A.arcs :
                  e[1] = q[s] /\ e[2] = <<a[s]>> /\ e[3] = q'[s] /\ e[4] > 0

\* C10: both.
C10_AutoregressiveStepSafe == []C10_BeliefDefined /\ [][C10_DrawnStateFollowsArc]_vars

\* Under the reweighting that bans the end of sequence on the empty prefix, a
\* second symbol has been drawn after a state drawn from the belief of the first.
C10_Witness ==
    /\ args[1].transform = "min_len" /\ pc[1] = "lm_while"
    /\ Len(y[1]) = 3 /\ a[1] \in Sigma
    /\ Cardinality({e \in A.arcs : e[2] = <<y[1][2]>> /\ e[4] > 0}) = 2

\* ------------------------------------------------- sequence distributions
\* Exact fractions <<numerator, denominator>>, in lowest terms.
RECURSIVE GCD(_, _)
GCD(m, n) == IF n = 0 THEN m ELSE GCD(n, m % n)
Frac(n, d) == IF n = 0 THEN <<0, 1>> ELSE <<n \div GCD(n, d), d \div GCD(n, d)>>
FMul(u, v) == Frac(u[1] * v[1], u[2] * v[2])
FAdd(u, v) == Frac(u[1] * v[2] + v[1] * u[2], u[2] * v[2])
RECURSIVE FSum(_)
FSum(fs) == IF fs = <<>> THEN <<0, 1>> ELSE FAdd(Head(fs), FSum(Tail(fs)))

\* The probability with which _draw(d) returns k: its entry of d.
ProbOf(d, k) == IF k \in Keys(d.items) THEN Frac(Get(d.items, k), d.den) ELSE <<0, 1>>

\* The probability that the loop of _ancestral, in state i, appends exactly w
\* and then draws the stop pair.
RECURSIVE PlainFrom(_, _)
PlainFrom(i, w) ==
    IF DivFails(StepItems(i), StepZ(i)) THEN <<0, 1>>
    ELSE LET options == Dist(StepItems(i), StepZ(i))
         IN  IF w = <<>> THEN ProbOf(options, <<0, 0>>)
             ELSE FSum([n \in DOMAIN QSeq(A) |->
                          FMul(ProbOf(options, <<Head(w), QSeq(A)[n]>>),
                               IF <<Head(w), QSeq(A)[n]>> \in Keys(options.items)
                               THEN PlainFrom(QSeq(A)[n], Tail(w)) ELSE <<0, 1>>)])

\* The probability that _ancestral generates w.
PlainProb(w) ==
    LET Z == SumSeq(Values(InitialItems))
        options == Dist(InitialItems, Z)
    IN  IF DivFails(InitialItems, Z) \/ DrawFails(options) THEN <<0, 1>>
        ELSE FSum([n \in DOMAIN options.items |->
                     FMul(ProbOf(options, options.items[n][1]),
                          PlainFrom(options.items[n][1], w))])

\* The probability that the loop of _ancestral_lm, with the mapping pq and the
\* last symbol b, appends exactly w and then EOS, under the identity transform:
\* summed over the states drawn from the beliefs.
RECURSIVE LmFrom(_, _, _)
LmFrom(pq, b, w) ==
    IF b \notin Keys(pq) THEN <<0, 1>>
    ELSE LET belief == Get(pq, b)
         IN  IF DrawFails(belief) THEN <<0, 1>>
             ELSE FSum([n \in DOMAIN belief.items |->
                    LET i == belief.items[n][1]
                        pa == Dist(MarginalItems(i), StepZ(i))
                    IN  IF belief.items[n][2] = 0
                           \/ DivFails(MarginalItems(i), StepZ(i)) THEN <<0, 1>>
                        ELSE FMul(ProbOf(belief, i),
                                  IF w = <<>> THEN ProbOf(pa, EOS)
                                  ELSE FMul(ProbOf(pa, Head(w)),
                                            LmFrom(Conditionals(i), Head(w), Tail(w))))])

\* The probability that _ancestral_lm generates w, under the identity transform.
LmProb(w) ==
    LET Z == SumSeq(Values(InitialItems))
    IN  IF DivFails(InitialItems, Z) THEN <<0, 1>>
        ELSE LmFrom(<< <<eps, Dist(InitialItems, Z)>> >>, eps, w)

\* What _ancestral returns when it has generated w.
PlainReturned(w, to_string) == IF to_string THEN [string |-> Join(w)] ELSE [symbols |-> w]

\* The probability half of C6 on its own: the two modes give every symbol
\* sequence the same probability.
C6_ProbabilitiesAgree ==
    \A s \in Samplers :
        pc[s] = "ancestral_lm" => \A w \in SeqsUpTo(MaxLen) : LmProb(w) = PlainProb(w)

\* C6 as stated: under the identity transform the autoregressive loop
\* generates every symbol sequence with the probability the plain loop does,
\* and the two modes return the same value for it.
C6_SameDistributionAndValue ==
    \A s \in Samplers :
        (pc[s] = "lm_while" /\ a[s] = EOS /\ args[s].transform = "id") =>
            LET w == SelectSeq(y[s], LAMBDA b : b \in Sigma)
            IN  /\ LmProb(w) = PlainProb(w)
                /\ Returned(s) = PlainReturned(w, args[s].to_string)

\* ------------------------------------------------------------ determinism
\* One list is a prefix of the other.
Agree(u, v) == \A n \in 1..Min({Len(u), Len(v)}) : u[n] = v[n]

\* C7: two samplers on the same automaton, temperature and seed, making the
\* same sequence of sample calls, return the same lists call by call: what
\* either has returned, drawn or raised so far is what the other returns,
\* draws or raises at the same point.
C7_SeedDeterminism ==
    \A s, t \in Samplers :
        rng[s].seed = rng[t].seed =>
            /\ Agree(out[s], out[t])
            /\ calls[s] = calls[t] /\ pc[s] # "idle" /\ pc[t] # "idle" => Agree(res[s], res[t])
            /\ calls[s] = calls[t] /\ pc[s] = pc[t] /\ todo[s] = todo[t]
                 /\ rng[s].lead = rng[t].lead
                 => q[s] = q[t] /\ a[s] = a[t] /\ y[s] = y[t] /\ err[s] = err[t]
            /\ err[s] # "none" /\ err[t] # "none" => err[s] = err[t] /\ calls[s] = calls[t]

\* Both samplers of one seed have returned from a call for two samples, and
\* the generator had a choice: the two samples differ.
C7_Witness ==
    /\ rng[1].seed = rng[2].seed
    /\ Len(out[1]) >= 1 /\ Len(out[2]) >= 1
    /\ Len(out[1][1]) = 2
    /\ out[1][1][1] # out[1][1][2]

\* ------------------------------------------------------------ termination
\* The states reached from S, and those reaching S, over arcs of positive weight.
RECURSIVE PosForward(_, _)
PosForward(F, S) ==
    LET N == S \cup {e[3] : e \in {e \in F.arcs : e[1] \in S /\ e[4] > 0}}
    IN  IF N = S THEN S ELSE PosForward(F, N)
RECURSIVE PosBackward(_, _)
PosBackward(F, S) ==
    LET N == S \cup {e[1] : e \in {e \in F.arcs : e[3] \in S /\ e[4] > 0}}
    IN  IF N = S THEN S ELSE PosBackward(F, N)
PosReachable(F) == PosForward(F, {p \in F.Q : F.lam[p] > 0})
PosCoreachable(F) == PosBackward(F, {p \in F.Q : F.rho[p] > 0})

\* Every state reachable by positive arcs from an initial state has a
\* positive path to a state of positive final weight.
Live(F) == PosReachable(F) \subseteq PosCoreachable(F)

\* The reachable states on cycles with no stop mass and no exit: the largest
\* set of reachable states without final weight, each with a positive arc and
\* all its positive arcs inside the set.
RECURSIVE Closed(_, _)
Closed(F, S) ==
    LET N == {p \in S : /\ F.rho[p] = 0
                        /\ \E e \in F.arcs : e[1] = p /\ e[4] > 0
                        /\ \A e \in F.arcs : e[1] = p /\ e[4] > 0 => e[3] \in S}
    IN  IF N = S THEN S ELSE Closed(F, N)
Trap(F) == Closed(F, PosReachable(F))

InLoop(s) == pc[s] = "while"
HasReturned(s) == pc[s] = "idle" /\ Len(out[s]) = 1

\* On a live automaton every run of the loop returns.
C9_LiveRunReturns == (InLoop(1) /\ Live(A)) ~> HasReturned(1)

\* In a state of a trap the loop can take its next step, raising nothing.
C9_TrapStepEnabled ==
    InLoop(1) /\ q[1] \in Trap(A) =>
        /\ ~DivFails(StepItems(q[1]), StepZ(q[1]))
        /\ ~DrawFails(Dist(StepItems(q[1]), StepZ(q[1])))
        /\ \E x \in Unit : ENABLED AncestralLoopOn(1, x)

\* A step from a state of a trap stays in the loop and in the trap, however
\* many symbols have been drawn.
C9_TrapClosed ==
    InLoop(1) /\ q[1] \in Trap(A) => InLoop(1)' /\ q'[1] \in Trap(A) /\ err'[1] = "none"

\* The loop is left, other than by an exception, only with q = 0, and q
\* becomes 0 only on the stop pair: no symbol is appended on that step.
C9_EndsOnlyOnStop ==
    /\ InLoop(1) /\ ~InLoop(1)' /\ err'[1] = "none" => q[1] = 0
    /\ InLoop(1) /\ q[1] # 0 /\ q'[1] = 0 =>
          /\ y'[1] = y[1] /\ trunc' = trunc
          /\ A.rho[q[1]] > 0

\* C9: plain ancestral sampling has no step cap and ends only by drawing the
\* stop pair: on a live automaton every run returns under fair draws, and a
\* run that has entered a trap can always take another step and never leaves.
C9_TerminationOnlyByStop ==
    /\ C9_LiveRunReturns
    /\ []C9_TrapStepEnabled
    /\ [][C9_TrapClosed /\ C9_EndsOnlyOnStop]_vars

\* A run is in a trap and has drawn more symbols than are recorded.
C9_Witness == InLoop(1) /\ q[1] \in Trap(A) /\ trunc

\* A run on a live automaton with a cycle has returned a sample of MaxLen symbols.
C9_WitnessReturned ==
    /\ HasReturned(1) /\ Live(A)
    /\ \E n \in DOMAIN out[1][1] :
          "symbols" \in DOMAIN out[1][1][n] /\ Len(out[1][1][n].symbols) = MaxLen

\* ------------------------------------------------------------ trim claims
Retained(F) == accessible(F) \cap coaccessible(F)
Incident(F, p) == {e \in F.arcs : e[1] = p \/ e[3] = p}

RestrictionOf(T, F) ==
    LET AC == Retained(F)
    IN  /\ T.kind = F.kind
        /\ T.arcs = {e \in F.arcs : e[1] \in AC /\ e[3] \in AC}
        /\ \A p \in States : T.lam[p] = IF p \in AC THEN F.lam[p] ELSE 0
        /\ \A p \in States : T.rho[p] = IF p \in AC THEN F.rho[p] ELSE 0
        /\ T.Q = AC
        /\ \A p \in States \ AC : Incident(T, p) = {}

\* C1: trim(F) has exactly the arcs of F with both ends in
\* accessible(F) \cap coaccessible(F), and F's initial and final weights
\* restricted to that set, labels (both components of a paired label) and
\* weights unchanged; a state that is unreachable, or has no path to a final
\* state, is gone with all its incident arcs.
C1_TrimIsRestriction ==
    \A n \in 1..(Len(auts) - 1) : RestrictionOf(auts[n + 1], auts[n])

\* trim has run on an automaton with a dead state and a sink state, each with
\* an incident arc, and an accepted path.
C1_Witness ==
    /\ Len(auts) = 2
    /\ \E d \in States \ accessible(auts[1]) : Incident(auts[1], d) # {}
    /\ \E k \in accessible(auts[1]) \ coaccessible(auts[1]) : Incident(auts[1], k) # {}
    /\ auts[2].Q # {}
    /\ auts[2].arcs # auts[1].arcs

\* C2: trim(trim(A)) = trim(A) in states, arcs, initial and final weights, and
\* every state of trim(A) is accessible and co-accessible in trim(A).
C2_TrimIdempotent ==
    /\ Len(auts) >= 2 => auts[2].Q \subseteq Retained(auts[2])
    /\ Len(auts) = 3 => auts[3] = auts[2]

\* trim has run twice, the first run removed something and kept an arc.
C2_Witness ==
    /\ Len(auts) = 3
    /\ auts[2].arcs # auts[1].arcs
    /\ auts[2].arcs # {}
    /\ auts[3].arcs # {}

====
